---- MODULE Spec2Model ----
(***************************************************************************)
(* A model of src/index.js, the OpenLedger multi-account client.           *)
(*                                                                         *)
(* The persistent-channel program (src/index.js lines 1-455) is modelled   *)
(* as a state machine: the top-level script that loads account.txt,        *)
(* proxy.txt and data.json, the main routine, the three remote operations  *)
(* with their retry loops, the per-account pipeline, the WebSocket session *)
(* of every account and the claim scheduler.                               *)
(*                                                                         *)
(* Node runs the program on one thread: every action below is one          *)
(* run-to-completion step of the event loop (the synchronous part of the   *)
(* script, the continuation of an await, a timer callback or an event      *)
(* handler).  A timer is modelled by the delay, in seconds, it was armed   *)
(* with; the platform runs its callback once that delay has elapsed.       *)
(***************************************************************************)
EXTENDS Integers, Sequences, FiniteSets, TLC

(***************************************************************************)
(* Bounds of the model.                                                    *)
(***************************************************************************)
MaxLines == 2       \* lines of account.txt
Max429 == 2         \* HTTP 429 answers the remote gives to one operation
MaxCloses == 1      \* failures of the channel the remote causes per account
MaxConn == 3        \* connectWebSocket closures kept per account
DelayStep == 10     \* the random delays are sampled every DelayStep seconds
MaxIdAttempt == 2   \* getAccountID's attempt number is tracked up to this
MaxLookups == 2     \* the lookups of a worker's assignment are counted up to this
MaxRuns == 2        \* process runs: the process is started again MaxRuns - 1 times
MaxTicks == 1       \* 12 h ticks of the claim scheduler
MaxBeats == 2       \* scheduled heartbeat requests of one account in flight

(***************************************************************************)
(* Program constants (seconds).                                            *)
(***************************************************************************)
Retries == 3              \* retries = 3
DelayMs == 60             \* delayMs = 60000
Wait429Min == 30          \* randomDelay(30000, 50000)
Wait429Max == 50
ReconnectDelay == 30      \* setTimeout(..., 30000) in doReconnect
HeartbeatPeriod == 30     \* setInterval(sendHeartbeat, 30000)
AxiosTimeout == 30        \* timeout: 30000, the channel-less program

None == "none"
\* the value of dataAssignments[workerID] when the key is absent
NoPair == [gpu |-> None, storage |-> None]

(***************************************************************************)
(* Inputs: the files the script reads.                                     *)
(***************************************************************************)
Owners == {"0xA", "0xB"}
Tokens == {"tok1", "tok2"}
\* a line of account.txt is the sequence of its parts, line.split(':')
Malformed == << "junk" >>
Line(o, t) == << o, t >>
\* files with two accounts, of one owner or of two
TwoAccounts ==
    { << Line("0xA", "tok1"), Line("0xA", "tok2") >>,
      << Line("0xA", "tok1"), Line("0xB", "tok2") >> }
AccountFiles ==
    { << >>, << Malformed >>, << Malformed, Line("0xA", "tok1") >> }
        \cup TwoAccounts
\* proxy.txt: whether it can be read, and the number of its usable lines
ProxyFiles == [readable : BOOLEAN, usable : {0, 1}]
GpuList == {"gpuA", "gpuB"}
Storages == {"250.00"}

(***************************************************************************)
(* base64Encode: Buffer.from(str).toString('base64') is a function of its  *)
(* argument and different strings have different encodings.                *)
(***************************************************************************)
base64Encode(str) ==
    CASE str = "0xA" -> "MHhB"
      [] str = "0xB" -> "MHhC"
Workers == { base64Encode(o) : o \in Owners }

\* randomDelay(minMs, maxMs): floor(random * (max - min + 1)) + min
randomDelay(minS, maxS) == { d \in minS..maxS : (d - minS) % DelayStep = 0 }

VARIABLES
    phase,            \* "boot", "loaded", "running" or "exited"
    exitCode,         \* status of process.exit, -1 while the process runs
    accountTxt,       \* the lines of account.txt
    proxyTxt,         \* the number of usable lines of proxy.txt, or unreadable
    tokens,           \* the loaded accounts, in file order
    proxies,          \* the number of loaded proxies
    dataFile,         \* the content of data.json
    dataAssignments,  \* worker identity -> assignment, or None
    accountIDs,       \* token -> account id, or None
    pipe,             \* per account: how the finished steps of runPipeline ended
    sched,            \* the process-wide intervals that are armed
    job,              \* per account and caller: the remote operation in progress
    conn,             \* per account: its connectWebSocket closures
    closes,           \* per account: close events so far
    connects,         \* per account: connectWebSocket calls so far
    remote,           \* the remote of this run: whether it rejects requests,
                      \* the account, if any, whose identity it never confirms
                      \* (down) and the one whose claim requests it fails (fails)
    lastPair,         \* per worker: the assignment the latest lookup returned
    lookups,          \* per worker: the lookups so far, counted up to MaxLookups
    variant,          \* the program that is run: "ws", the persistent-channel
                      \* program (lines 1-455), or "lite", the channel-less one
    lite,             \* per account: its state in the channel-less program
    runs,             \* the number of this process run
    earlier           \* per worker: the assignment the lookups of the earlier
                      \* runs returned

vars == << phase, exitCode, accountTxt, proxyTxt, tokens, proxies, dataFile,
           dataAssignments, accountIDs, pipe, sched, job, conn, closes, connects,
           remote, lastPair, lookups, variant, lite, runs, earlier >>

inputVars == << accountTxt, proxyTxt, variant >>
runVars == << runs, earlier >>
procVars == << phase, exitCode, tokens, proxies >>
storeVars == << dataFile, dataAssignments, lastPair, lookups >>
wsVars == << conn, closes, connects >>

NoAssignments == [w \in Workers |-> NoPair]
\* data.json: absent, not parsable, or the mapping written last
File(state, content) == [state |-> state, content |-> content]

\* the pipeline of the channel-less program, in the order of its awaits
LiteSteps == << "checkAppVersion", "getUserInfo", "getClaimDetails",
                "getStreakInfo", "sendHeartbeat", "claimReward" >>
\* an account of the channel-less program:
\*   fn       the function of runPipeline whose request is in flight
\*   past     the functions of runPipeline that have returned, in order
\*   claimed  what the claim_details response of the pipeline reported
\*   claims   the claimReward requests of scheduleClaims in flight
\*   beats    the sendHeartbeat requests of scheduleHeartbeats in flight
LiteIdle == [fn |-> None, past |-> << >>, claimed |-> None, claims |-> 0, beats |-> 0,
             hbFailed |-> FALSE]

Accts == 1..Len(tokens)
AcctIds == 1..MaxLines
\* who started an operation: runPipeline, the claim scheduler when it is
\* started, or the claim scheduler at a 12 h tick
Callers == {"pipeline", "startup", "tick"}
Pairs == [gpu : GpuList, storage : Storages]

(***************************************************************************)
(* The script before main: account.txt, proxy.txt and data.json are read.  *)
(***************************************************************************)
\* tokens = accountLines.map(...).filter(Boolean)
ParseAccounts(lines) ==
    LET valid == SelectSeq(lines, LAMBDA l : Len(l) = 2)
    IN  [k \in 1..Len(valid) |->
            [ownerAddress |-> valid[k][1],
             token |-> valid[k][2],
             workerID |-> base64Encode(valid[k][1]),
             sessionID |-> << "uuid", k >>]]

\* a variant: only an empty proxy list aborts
NoProxyAtAll(nProxies, nTokens) == nProxies = 0

\* if (proxies.length < tokens.length) process.exit(1)
NotEnoughProxies(nProxies, nTokens) == nProxies < nTokens

\* dataAssignments = JSON.parse(readFileSync('data.json')), {} when that throws
ParseData(file) ==
    IF file.state \in {"absent", "corrupt"} THEN NoAssignments ELSE file.content

(***************************************************************************)
(* A remote operation in progress (one activation of getAccountID,         *)
(* getAccountDetails or checkAndClaimReward):                              *)
(*   fn       the function                                                 *)
(*   call     the request handleAxios429 is wrapping                       *)
(*   pc       "request": the request is in flight; "wait429": asleep in    *)
(*            handleAxios429; "retryWait": asleep between two attempts;    *)
(*            "returned"; "thrown": it ended with an exception             *)
(*   attempt  the loop variable                                            *)
(*   timer    the delay of the pending sleep, 0 when there is none         *)
(*   seen429  the 429 answers the remote gave this activation              *)
(*   result   "ok" when it returned from the try block, "failed" when it   *)
(*            returned after its last attempt failed                       *)
(***************************************************************************)
Idle == [fn |-> None, call |-> None, pc |-> "idle", attempt |-> 0, timer |-> 0,
         seen429 |-> 0, result |-> None]
NoResults == [getAccountID |-> None, getAccountDetails |-> None,
              checkAndClaimReward |-> None]

Exit(code) ==
    /\ phase' = "exited"
    /\ exitCode' = code

Load ==
    /\ phase = "boot"
    /\ tokens' = ParseAccounts(accountTxt)
    /\ IF Len(tokens') = 0
       THEN /\ Exit(1)
            /\ UNCHANGED << proxies, dataAssignments >>
       ELSE IF ~proxyTxt.readable
       THEN /\ Exit(1)
            /\ UNCHANGED << proxies, dataAssignments >>
       ELSE /\ proxies' = proxyTxt.usable
            /\ IF NotEnoughProxies(proxies', Len(tokens'))
               THEN /\ Exit(1)
                    /\ UNCHANGED dataAssignments
               ELSE /\ phase' = "loaded"
                    /\ dataAssignments' = ParseData(dataFile)
                    /\ UNCHANGED exitCode
    /\ UNCHANGED << inputVars, lite, runVars, dataFile, lastPair, lookups, accountIDs, pipe,
                    sched, job, wsVars, remote >>

\* the request each function starts an attempt with
FirstCall(fn) ==
    CASE fn = "getAccountID" -> "users/me"
      [] fn = "getAccountDetails" -> "reward"
      [] fn = "checkAndClaimReward" -> "claim_details"

Begin(fn) ==
    [fn |-> fn, call |-> FirstCall(fn), pc |-> "request", attempt |-> 1,
     timer |-> 0, seen429 |-> 0, result |-> None]

\* a variant: no function gives up, all retry as getAccountID does
BoundedNone(fn) == FALSE

\* a variant: getAccountID gives up like the other two
BoundedAll(fn) == TRUE

\* retries of each function: getAccountID loops while (true)
Bounded(fn) == fn \in {"getAccountDetails", "checkAndClaimReward"}

(***************************************************************************)
(* handleAxios429, the catch block: a 429 puts the wrapper to sleep for a  *)
(* random delay, any other error is thrown to the caller.                  *)
(***************************************************************************)
\* a variant: the status is read from err.status, which axios does not set
Is429Never(status) == FALSE

\* err.response?.status === 429
Is429(status) == status = 429

On429(op, wait) == [op EXCEPT !.pc = "wait429", !.timer = wait]

\* a variant: the loop condition lets a further attempt follow the last one
OnErrorOneMore(op) ==
    IF op.attempt <= Retries
    THEN [op EXCEPT !.pc = "retryWait", !.timer = DelayMs]
    ELSE [op EXCEPT !.pc = "returned", !.result = "failed"]

\* a variant: the error of the last attempt is thrown to the caller
OnErrorThrows(op) ==
    IF op.attempt < Retries \/ op.fn = "getAccountID"
    THEN [op EXCEPT !.pc = "retryWait", !.timer = DelayMs]
    ELSE [op EXCEPT !.pc = "thrown", !.result = "failed"]

\* the catch block of the three functions
OnError(op) ==
    IF Bounded(op.fn)
    THEN IF op.attempt < Retries
         THEN [op EXCEPT !.pc = "retryWait", !.timer = DelayMs]
         ELSE [op EXCEPT !.pc = "returned", !.result = "failed"]
    ELSE [op EXCEPT !.pc = "retryWait", !.timer = DelayMs]

\* a request is rejected with an HTTP status (0: no response at all)
OnRejected(op, status, wait) ==
    IF Is429(status) THEN On429(op, wait) ELSE OnError(op)

\* the sleep of handleAxios429 is over: while (true) calls fn() again
After429(op) == [op EXCEPT !.pc = "request", !.timer = 0]

\* the sleep between two attempts is over: attempt++ and the next iteration
AfterDelay(op) ==
    [op EXCEPT !.pc = "request", !.timer = 0, !.call = FirstCall(op.fn),
               !.attempt = IF Bounded(op.fn) THEN @ + 1
                           ELSE IF @ < MaxIdAttempt THEN @ + 1 ELSE @]

\* the request is answered: claimed is the field of claim_details
OnResolved(op, claimed) ==
    IF op.call = "claim_details" /\ ~claimed
    THEN [op EXCEPT !.call = "claim_reward"]
    ELSE [op EXCEPT !.pc = "returned", !.result = "ok"]

(***************************************************************************)
(* The Resource Assignment Store.                                          *)
(***************************************************************************)
\* a variant: the assignment is drawn on every lookup
AlwaysUnassigned(store, workerID) == TRUE

\* if (!dataAssignments[workerID])
Unassigned(store, workerID) == store[workerID] = NoPair

\* getOrAssignResources: pair is what Math.random() draws, written is how
\* writeFileSync ends ("ok", "failed": the file is as before, "torn": the
\* file was truncated and the write failed); lastPair is what it returns
\* a variant: the file is written with the new assignment only
getOrAssignResourcesNewestOnly(workerID) ==
    /\ IF Unassigned(dataAssignments, workerID)
       THEN \E pair \in Pairs, written \in {"ok", "failed", "torn"} :
              /\ dataAssignments' = [dataAssignments EXCEPT ![workerID] = pair]
              /\ dataFile' = CASE written = "ok" ->
                                    File("ok", [NoAssignments EXCEPT ![workerID] = pair])
                               [] written = "failed" -> dataFile
                               [] written = "torn" -> File("corrupt", NoAssignments)
       ELSE UNCHANGED << dataAssignments, dataFile >>
    /\ lastPair' = [lastPair EXCEPT ![workerID] = dataAssignments'[workerID]]
    /\ lookups' = [lookups EXCEPT ![workerID] = IF @ < MaxLookups THEN @ + 1 ELSE @]

getOrAssignResources(workerID) ==
    /\ IF Unassigned(dataAssignments, workerID)
       THEN \E pair \in Pairs, written \in {"ok", "failed", "torn"} :
              /\ dataAssignments' = [dataAssignments EXCEPT ![workerID] = pair]
              /\ dataFile' = CASE written = "ok" -> File("ok", dataAssignments')
                               [] written = "failed" -> dataFile
                               [] written = "torn" -> File("corrupt", NoAssignments)
       ELSE UNCHANGED << dataAssignments, dataFile >>
    /\ lastPair' = [lastPair EXCEPT ![workerID] = dataAssignments'[workerID]]
    /\ lookups' = [lookups EXCEPT ![workerID] = IF @ < MaxLookups THEN @ + 1 ELSE @]

(***************************************************************************)
(* The session of one account: a sequence of connectWebSocket closures.    *)
(*   ws                the readyState of the closure's WebSocket           *)
(*   reconnectPending  the closure's flag                                  *)
(*   reconnectTimers   the pending setTimeout callbacks of doReconnect     *)
(*   delay             the delay the latest of them was armed with         *)
(*   heartbeatInterval the period of the running interval, 0 when there is *)
(*                     none                                                *)
(*   sent              the messages sent on the socket, in order; a        *)
(*                     HEARTBEAT that follows a HEARTBEAT is not added     *)
(*   account, index    the parameters connectWebSocket was called with     *)
(* A closure whose socket is closed and that has no timer left can run no  *)
(* code any more and is dropped from the sequence.                         *)
(***************************************************************************)
NewClosure(account, index) ==
    [ws |-> "CONNECTING", reconnectPending |-> FALSE, reconnectTimers |-> 0,
     delay |-> 0, heartbeatInterval |-> 0, sent |-> << >>,
     account |-> account, index |-> index]

Inert(cl) ==
    cl.ws = "CLOSED" /\ cl.reconnectTimers = 0 /\ cl.heartbeatInterval = 0

Collect(cls) == SelectSeq(cls, LAMBDA cl : ~Inert(cl))

\* connectWebSocket(account, index): a new closure with a connecting socket
connectWebSocket(cls, account, index) == Append(cls, NewClosure(account, index))

\* regMsg of ws.on('open')
regMsg(cl) ==
    [msgType |-> "REGISTER", workerID |-> cl.account.workerID,
     id |-> cl.account.sessionID, identity |-> cl.account.workerID,
     ownerAddress |-> cl.account.ownerAddress]

\* hbMsg of sendHeartbeat
hbMsg(cl) ==
    [msgType |-> "HEARTBEAT", workerID |-> cl.account.workerID,
     Identity |-> cl.account.workerID, ownerAddress |-> cl.account.ownerAddress]

\* wsUrl: the token the socket is opened with
wsUrl(cl) == cl.account.token

\* a variant: the reconnect draws a new session id
reconnectNewSession(cl) == [cl.account EXCEPT !.sessionID = << "uuid", 0 >>]

\* the account doReconnect's timer calls connectWebSocket with: the
\* parameters of its own closure
reconnectAccount(cl) == cl.account

\* a variant: the timer is armed and reconnectPending is left as it is
doReconnectUnmarked(cl) ==
    IF cl.reconnectPending
    THEN cl
    ELSE [cl EXCEPT !.reconnectTimers = @ + 1, !.delay = ReconnectDelay]

\* doReconnect
doReconnect(cl) ==
    IF cl.reconnectPending
    THEN cl
    ELSE [cl EXCEPT !.reconnectPending = TRUE,
                    !.reconnectTimers = @ + 1,
                    !.delay = ReconnectDelay]

\* ws.send(JSON.stringify(msg)): the message goes out on an open socket; on a
\* socket that is closing or closed the library drops it
send(cl, msgType) ==
    IF cl.ws = "OPEN" /\ (cl.sent = << >> \/ cl.sent[Len(cl.sent)] # "HEARTBEAT"
                                          \/ msgType # "HEARTBEAT")
    THEN [cl EXCEPT !.sent = Append(@, msgType)]
    ELSE cl

\* a variant: the interval's callback sends REGISTER again
sendHeartbeatRegisters(cl) == send(cl, regMsg(cl).msgType)

\* sendHeartbeat, the message: HEARTBEAT is sent on the closure's own socket
sendHeartbeat(cl) == send(cl, hbMsg(cl).msgType)

\* ws.on('open'): REGISTER is sent and the heartbeat interval is started
onOpen(cl) ==
    [send([cl EXCEPT !.ws = "OPEN"], regMsg(cl).msgType) EXCEPT
        !.heartbeatInterval = HeartbeatPeriod]

\* a variant: no handler for 'error'
HandlersWithoutError == {"open", "message", "close"}

\* the events connectWebSocket registers a handler for
Handlers == {"open", "message", "error", "close"}

\* ws.on('error'): the handler logs; the socket is on its way to closed
onError(cl) == [cl EXCEPT !.ws = "CLOSING"]

\* a variant: only a socket that had been open is reconnected
onCloseOpenedOnly(cl) ==
    IF cl.heartbeatInterval = 0
    THEN [cl EXCEPT !.ws = "CLOSED"]
    ELSE doReconnect([cl EXCEPT !.ws = "CLOSED", !.heartbeatInterval = 0])

\* a variant: the interval is left running
onCloseKeepsInterval(cl) == doReconnect([cl EXCEPT !.ws = "CLOSED"])

\* ws.on('close'): clearInterval(heartbeatInterval); doReconnect()
onClose(cl) ==
    doReconnect([cl EXCEPT !.ws = "CLOSED", !.heartbeatInterval = 0])

\* a variant: the callback is run by setInterval, so the timer stays armed
onReconnectInterval(cl) == [cl EXCEPT !.reconnectPending = FALSE]

\* the callback of doReconnect's timer, without the connectWebSocket call
onReconnectTimer(cl) ==
    [cl EXCEPT !.reconnectPending = FALSE, !.reconnectTimers = @ - 1]

\* a variant of main: the pipelines are awaited one after the other, so
\* only the first one is started here
MainOneByOne ==
    /\ phase = "loaded" /\ variant = "ws"
    /\ phase' = "running"
    /\ sched' = [sched EXCEPT !.claims = TRUE]
    /\ job' = [i \in AcctIds |->
                 IF i \in Accts
                 THEN [job[i] EXCEPT
                          !.startup = Begin("checkAndClaimReward"),
                          !.pipeline = IF i = 1 THEN Begin("getAccountID") ELSE Idle]
                 ELSE job[i]]
    /\ UNCHANGED << exitCode, tokens, proxies, inputVars, lite, runVars, storeVars, accountIDs,
                    pipe, wsVars, remote >>

(***************************************************************************)
(* main: schedulePeriodicClaims() starts checkAndClaimReward for every     *)
(* account and arms the 12 h interval, then runPipeline is started for     *)
(* every account; each function runs up to its first request.              *)
(***************************************************************************)
Main ==
    /\ phase = "loaded" /\ variant = "ws"
    /\ phase' = "running"
    /\ sched' = [sched EXCEPT !.claims = TRUE]
    /\ job' = [i \in AcctIds |->
                 IF i \in Accts
                 THEN [job[i] EXCEPT !.startup = Begin("checkAndClaimReward"),
                                     !.pipeline = Begin("getAccountID")]
                 ELSE job[i]]
    /\ UNCHANGED << exitCode, tokens, proxies, inputVars, lite, runVars, storeVars, accountIDs,
                    pipe, wsVars, remote >>

PipelineDone == [Idle EXCEPT !.pc = "returned"]

\* a variant: runPipeline leaves out getAccountDetails
NextStepSkipsDetails(fn) ==
    CASE fn = "getAccountID" -> "checkAndClaimReward"
      [] fn = "getAccountDetails" -> "checkAndClaimReward"
      [] fn = "checkAndClaimReward" -> "connectWebSocket"

\* runPipeline: the function awaited after fn
NextStep(fn) ==
    CASE fn = "getAccountID" -> "getAccountDetails"
      [] fn = "getAccountDetails" -> "checkAndClaimReward"
      [] fn = "checkAndClaimReward" -> "connectWebSocket"

(***************************************************************************)
(* The operation of account i started by caller c moves to op.  When the   *)
(* operation returns, the caller's continuation runs in the same step:     *)
(* runPipeline starts its next function or calls connectWebSocket and      *)
(* returns, and main, once every pipeline has returned, calls              *)
(* schedulePeriodicUpdates.  An exception out of the operation rejects     *)
(* runPipeline, Promise.all and main, which nothing catches: the process   *)
(* ends with status 1.  The batch of schedulePeriodicClaims has a catch.   *)
(***************************************************************************)
Settle(i, c, op) ==
    IF op.pc = "returned" /\ c = "pipeline"
    THEN /\ pipe' = [pipe EXCEPT ![i][op.fn] = op.result]
         /\ IF NextStep(op.fn) = "connectWebSocket"
            THEN /\ job' = [job EXCEPT ![i][c] = PipelineDone]
                 /\ conn' = [conn EXCEPT ![i] = connectWebSocket(@, tokens[i], i)]
                 /\ connects' = [connects EXCEPT ![i] = @ + 1]
                 /\ sched' = IF \A j \in Accts : job'[j].pipeline = PipelineDone
                             THEN [sched EXCEPT !.updates = TRUE]
                             ELSE sched
                 /\ UNCHANGED closes
            ELSE /\ job' = [job EXCEPT ![i][c] = Begin(NextStep(op.fn))]
                 /\ UNCHANGED << wsVars, sched >>
         /\ UNCHANGED << phase, exitCode >>
    ELSE IF op.pc = "thrown" /\ c = "pipeline"
    THEN /\ pipe' = [pipe EXCEPT ![i][op.fn] = op.result]
         /\ job' = [job EXCEPT ![i][c] = op]
         /\ Exit(1)
         /\ UNCHANGED << wsVars, sched >>
    ELSE /\ job' = [job EXCEPT ![i][c] = op]
         /\ UNCHANGED << pipe, wsVars, sched, phase, exitCode >>

\* the account whose identity request the remote never answers with success
IdentityDown(i, op) == remote.down = i /\ op.call = "users/me"

\* the account whose claim_details request the remote always fails
ClaimDown(i, op) == remote.fails = i /\ op.call = "claim_details"

\* resp.data.data.id of the account with this token
AccountId(token) == CASE token = "tok1" -> "id1" [] token = "tok2" -> "id2"

(***************************************************************************)
(* The request of an operation is answered with success.                   *)
(***************************************************************************)
Resolve(i, c) ==
    /\ phase = "running"
    /\ i \in Accts
    /\ job[i][c].pc = "request"
    /\ ~IdentityDown(i, job[i][c]) /\ ~ClaimDown(i, job[i][c])
    /\ \E claimed \in IF job[i][c].call = "claim_details" THEN BOOLEAN ELSE {FALSE} :
          Settle(i, c, OnResolved(job[i][c], claimed))
    /\ accountIDs' = IF job[i][c].fn = "getAccountID"
                     THEN [accountIDs EXCEPT ![tokens[i].token] =
                               AccountId(tokens[i].token)]
                     ELSE accountIDs
    /\ UNCHANGED << tokens, proxies, inputVars, lite, runVars, storeVars, remote >>

(***************************************************************************)
(* The request of an operation is rejected: with status 429, with an error *)
(* status (500), or without any response (0).                              *)
(***************************************************************************)
Reject(i, c) ==
    /\ phase = "running"
    /\ i \in Accts
    /\ job[i][c].pc = "request"
    /\ remote.rejects \/ IdentityDown(i, job[i][c]) \/ ClaimDown(i, job[i][c])
    /\ \E status \in {429, 500, 0} :
          /\ Is429(status) => remote.rejects /\ job[i][c].seen429 < Max429
          /\ \E wait \in IF Is429(status) THEN randomDelay(Wait429Min, Wait429Max)
                                           ELSE {0} :
                Settle(i, c, [OnRejected(job[i][c], status, wait) EXCEPT
                                 !.seen429 = IF status = 429 THEN @ + 1 ELSE @])
    /\ UNCHANGED << tokens, proxies, inputVars, lite, runVars, storeVars, accountIDs, remote >>

\* a sleep of handleAxios429 ends
Wake429(i, c) ==
    /\ phase = "running"
    /\ i \in Accts
    /\ job[i][c].pc = "wait429"
    /\ Settle(i, c, After429(job[i][c]))
    /\ UNCHANGED << tokens, proxies, inputVars, lite, runVars, storeVars, accountIDs, remote >>

\* a sleep between two attempts ends
WakeRetry(i, c) ==
    /\ phase = "running"
    /\ i \in Accts
    /\ job[i][c].pc = "retryWait"
    /\ Settle(i, c, AfterDelay(job[i][c]))
    /\ UNCHANGED << tokens, proxies, inputVars, lite, runVars, storeVars, accountIDs, remote >>

(***************************************************************************)
(* The events of the session of account i; k is the closure they run in.   *)
(***************************************************************************)
HttpVars == << accountIDs, pipe, sched, job, remote >>

\* the socket is connected: ws.on('open')
WsOpen(i, k) ==
    /\ phase = "running"
    /\ i \in Accts /\ k \in 1..Len(conn[i])
    /\ conn[i][k].ws = "CONNECTING"
    /\ conn' = [conn EXCEPT ![i][k] = onOpen(@)]
    /\ UNCHANGED << procVars, inputVars, lite, runVars, storeVars, HttpVars, closes, connects >>

\* the connection attempt or the open socket fails: ws.on('error'); the
\* library emits 'close' after it.  An 'error' event nobody listens to is
\* thrown by the emitter and ends the process.
WsError(i, k) ==
    /\ phase = "running"
    /\ i \in Accts /\ k \in 1..Len(conn[i])
    /\ conn[i][k].ws \in {"CONNECTING", "OPEN"}
    /\ closes[i] < MaxCloses
    /\ conn' = [conn EXCEPT ![i][k] = onError(@)]
    /\ IF "error" \in Handlers
       THEN UNCHANGED << phase, exitCode >>
       ELSE Exit(1)
    /\ UNCHANGED << tokens, proxies, inputVars, lite, runVars, storeVars, HttpVars, closes, connects >>

\* the socket is closed, by the remote or after an error: ws.on('close')
WsClose(i, k) ==
    /\ phase = "running"
    /\ i \in Accts /\ k \in 1..Len(conn[i])
    /\ \/ conn[i][k].ws = "CLOSING"
       \/ conn[i][k].ws = "OPEN" /\ closes[i] < MaxCloses
    /\ conn' = [conn EXCEPT ![i] = Collect([@ EXCEPT ![k] = onClose(@)])]
    /\ closes' = [closes EXCEPT ![i] = @ + 1]
    /\ UNCHANGED << procVars, inputVars, lite, runVars, storeVars, HttpVars, connects >>

\* the timer of doReconnect fires: reconnectPending = false; connectWebSocket(...)
ReconnectTimer(i, k) ==
    /\ phase = "running"
    /\ i \in Accts /\ k \in 1..Len(conn[i])
    /\ conn[i][k].reconnectTimers > 0
    /\ conn' = [conn EXCEPT ![i] =
                   Collect(connectWebSocket([@ EXCEPT ![k] = onReconnectTimer(@)],
                                            reconnectAccount(conn[i][k]),
                                            conn[i][k].index))]
    /\ Len(conn'[i]) <= MaxConn
    /\ connects' = [connects EXCEPT ![i] = @ + 1]
    /\ UNCHANGED << procVars, inputVars, lite, runVars, storeVars, HttpVars, closes >>

\* the heartbeat interval ticks: sendHeartbeat resolves the assignment of the
\* worker and sends HEARTBEAT on the closure's socket
HeartbeatTick(i, k) ==
    /\ phase = "running"
    /\ i \in Accts /\ k \in 1..Len(conn[i])
    /\ conn[i][k].heartbeatInterval > 0
    /\ getOrAssignResources(tokens[i].workerID)
    /\ conn' = [conn EXCEPT ![i][k] = sendHeartbeat(@)]
    /\ UNCHANGED << procVars, inputVars, lite, runVars, HttpVars, closes, connects >>

(***************************************************************************)
(* The 12 h interval of schedulePeriodicClaims ticks: checkAndClaimReward  *)
(* is started for every account.  The operations of a tick are kept apart  *)
(* from those started with the scheduler; a tick comes when those of the   *)
(* tick before have returned.                                              *)
(***************************************************************************)
\* a variant: a tick leaves out the accounts whose first claim check failed
ClaimTickSkipsFailed ==
    /\ phase = "running" /\ variant = "ws"
    /\ sched.claims
    /\ sched.ticks < MaxTicks
    /\ \A i \in Accts : job[i].tick.pc \in {"idle", "returned"}
    /\ job' = [i \in AcctIds |->
                 IF i \in Accts /\ job[i].startup.result # "failed"
                 THEN [job[i] EXCEPT !.tick = Begin("checkAndClaimReward")]
                 ELSE job[i]]
    /\ sched' = [sched EXCEPT !.ticks = @ + 1]
    /\ UNCHANGED << procVars, inputVars, lite, runVars, storeVars, accountIDs, pipe,
                    wsVars, remote >>

ClaimTick ==
    /\ phase = "running" /\ variant = "ws"
    /\ sched.claims
    /\ sched.ticks < MaxTicks
    /\ \A i \in Accts : job[i].tick.pc \in {"idle", "returned"}
    /\ job' = [i \in AcctIds |->
                 IF i \in Accts
                 THEN [job[i] EXCEPT !.tick = Begin("checkAndClaimReward")]
                 ELSE job[i]]
    /\ sched' = [sched EXCEPT !.ticks = @ + 1]
    /\ UNCHANGED << procVars, inputVars, lite, runVars, storeVars, accountIDs, pipe,
                    wsVars, remote >>

(***************************************************************************)
(* The channel-less program (lines 457-861).  Its top-level script is the  *)
(* one of the persistent-channel program (Load).  Every function makes one *)
(* request with timeout: 30000 and no agent, and returns the response data *)
(* or, from its catch block, null: there is no retry and no exception.     *)
(***************************************************************************)
\* no proxy: the default agent of axios, or https.Agent
Direct == 0

\* buildProxyAgent(index): the list position of the proxy the agent uses
buildProxyAgent(index) == IF index <= proxies THEN index ELSE Direct

\* wsAgent of connectWebSocket: proxies[index], else https.Agent
wsAgent(index) == IF index <= proxies THEN index ELSE Direct

\* the agent of the requests of the account at list position index: the
\* persistent-channel program passes httpsAgent: buildProxyAgent(index), the
\* channel-less program passes no agent to axios
RequestAgent(index) == IF variant = "ws" THEN buildProxyAgent(index) ELSE Direct

\* the timeout option of the requests: the persistent-channel program sets
\* none (axios then waits without limit)
RequestTimeout == IF variant = "lite" THEN AxiosTimeout ELSE 0

\* main: runPipeline is started for every account, up to its first request
LiteMain ==
    /\ phase = "loaded" /\ variant = "lite"
    /\ phase' = "running"
    /\ lite' = [i \in AcctIds |->
                  IF i \in Accts THEN [lite[i] EXCEPT !.fn = LiteSteps[1]] ELSE lite[i]]
    /\ UNCHANGED << exitCode, tokens, proxies, inputVars, runVars, storeVars,
                    accountIDs, pipe, sched, job, wsVars, remote >>

\* the function runPipeline awaits after the functions of past
LiteNext(past) == IF Len(past) < Len(LiteSteps) THEN LiteSteps[Len(past) + 1] ELSE None

\* the pipelines of all accounts have returned
LiteAllReturned(lt) == \A j \in Accts : Len(lt[j].past) = Len(LiteSteps)

(***************************************************************************)
(* The function of runPipeline that account i awaits returns (data tells   *)
(* whether with the response data or with null), and runPipeline calls the *)
(* next one, up to its request: sendHeartbeat first resolves the           *)
(* assignment of the worker.  When the last pipeline returns, main calls   *)
(* scheduleHeartbeats and scheduleClaims, which calls claimReward for      *)
(* every account.                                                          *)
(***************************************************************************)
LiteSettle(i, data, claimed) ==
    LET past == Append(lite[i].past, lite[i].fn)
        mine == [lite[i] EXCEPT
                    !.past = past,
                    !.fn = LiteNext(past),
                    !.claimed = IF lite[i].fn = "getClaimDetails" /\ data
                                THEN claimed ELSE @]
        lt == [lite EXCEPT ![i] = mine]
    IN  /\ IF LiteNext(past) = "sendHeartbeat"
           THEN getOrAssignResources(tokens[i].workerID)
           ELSE UNCHANGED storeVars
        /\ IF LiteAllReturned(lt)
           THEN /\ sched' = [sched EXCEPT !.heartbeats = TRUE, !.claims = TRUE]
                /\ lite' = [j \in AcctIds |->
                              IF j \in Accts THEN [lt[j] EXCEPT !.claims = @ + 1]
                                             ELSE lt[j]]
           ELSE /\ lite' = lt
                /\ UNCHANGED sched
        /\ UNCHANGED << procVars, inputVars, runVars, accountIDs, pipe, job, wsVars,
                        remote >>

\* the request of the pipeline of account i is answered, with success or,
\* by a remote that rejects, with an error status
LiteAnswer(i) ==
    /\ phase = "running" /\ variant = "lite"
    /\ i \in Accts
    /\ lite[i].fn # None
    /\ \E data \in IF remote.rejects \/ remote.fails = i THEN BOOLEAN ELSE {TRUE},
          claimed \in {"yes", "no"} :
          LiteSettle(i, data, claimed)

\* the request of the pipeline of account i is not answered within the
\* timeout: axios rejects and the function returns null
LiteTimeout(i) ==
    /\ phase = "running" /\ variant = "lite"
    /\ i \in Accts
    /\ lite[i].fn # None
    /\ RequestTimeout > 0
    /\ LiteSettle(i, FALSE, None)

\* the mapping after the lookups of the workers of the accounts 1..n, in
\* that order: pairs[j] is what the lookup of account j would draw
RECURSIVE AssignedUpTo(_, _)
AssignedUpTo(n, pairs) ==
    IF n = 0
    THEN dataAssignments
    ELSE LET store == AssignedUpTo(n - 1, pairs)
             w == tokens[n].workerID
         IN  IF Unassigned(store, w) THEN [store EXCEPT ![w] = pairs[n]] ELSE store

\* the workers of the loaded accounts
Loaded == { tokens[j].workerID : j \in Accts }

\* the 30 s interval of scheduleHeartbeats ticks: sendHeartbeat is called for
\* every account, each resolves the assignment of its worker and posts
LiteBeatTick ==
    /\ phase = "running" /\ variant = "lite"
    /\ sched.heartbeats
    /\ \A i \in Accts : lite[i].beats < MaxBeats
    /\ \E pairs \in [Accts -> Pairs], written \in {"ok", "failed", "torn"} :
          /\ dataAssignments' = AssignedUpTo(Len(tokens), pairs)
          /\ dataFile' = IF dataAssignments' = dataAssignments THEN dataFile
                         ELSE CASE written = "ok" -> File("ok", dataAssignments')
                                [] written = "failed" -> dataFile
                                [] written = "torn" -> File("corrupt", NoAssignments)
    /\ lastPair' = [w \in Workers |->
                      IF w \in Loaded THEN dataAssignments'[w] ELSE lastPair[w]]
    /\ lookups' = [w \in Workers |->
                     IF w \in Loaded /\ lookups[w] < MaxLookups
                     THEN lookups[w] + 1 ELSE lookups[w]]
    /\ lite' = [i \in AcctIds |->
                  IF i \in Accts THEN [lite[i] EXCEPT !.beats = @ + 1] ELSE lite[i]]
    /\ UNCHANGED << procVars, inputVars, runVars, accountIDs, pipe, sched, job,
                    wsVars, remote >>

\* the 12 h interval of scheduleClaims ticks: claimReward for every account;
\* the requests of the tick before have ended, by their timeout at the latest
LiteClaimTick ==
    /\ phase = "running" /\ variant = "lite"
    /\ sched.claims
    /\ sched.ticks < MaxTicks
    /\ \A i \in Accts : lite[i].claims = 0
    /\ lite' = [i \in AcctIds |->
                  IF i \in Accts THEN [lite[i] EXCEPT !.claims = @ + 1] ELSE lite[i]]
    /\ sched' = [sched EXCEPT !.ticks = @ + 1]
    /\ UNCHANGED << procVars, inputVars, runVars, storeVars, accountIDs, pipe, job,
                    wsVars, remote >>

\* a variant: an error of the request is thrown to the caller, which
\* nobody awaits
CaughtNever(kind) == FALSE

\* the try of sendHeartbeat and of claimReward has a catch that logs
Caught(kind) == kind \in {"claims", "beats"}

\* a request of the schedulers of account i ends: it is answered, with
\* success or with an error, or it times out, and claimReward or
\* sendHeartbeat returns; nobody awaits them.  hbFailed records that a
\* scheduled heartbeat of the account has failed.
LiteDone(i, kind) ==
    /\ phase = "running" /\ variant = "lite"
    /\ i \in Accts
    /\ lite[i][kind] > 0
    /\ \E ok \in IF remote.rejects \/ remote.fails = i THEN BOOLEAN ELSE {TRUE} :
          /\ lite' = [lite EXCEPT ![i][kind] = @ - 1,
                                  ![i].hbFailed = @ \/ (~ok /\ kind = "beats")]
          /\ IF ok \/ Caught(kind)
             THEN UNCHANGED << phase, exitCode >>
             ELSE Exit(1)
    /\ UNCHANGED << tokens, proxies, inputVars, runVars, storeVars, accountIDs, pipe,
                    sched, job, wsVars, remote >>

(***************************************************************************)
(* The initial state: the process has started and has read nothing yet.    *)
(***************************************************************************)
StoredBefore == [w \in Workers |-> IF w = base64Encode("0xA")
                                   THEN [gpu |-> "gpuA", storage |-> "0.00"]
                                   ELSE NoPair]
DataFiles == { File("absent", NoAssignments), File("corrupt", NoAssignments),
               File("ok", StoredBefore) }

\* no interval is armed: claims is the 12 h interval of the claim scheduler,
\* updates the 5 min interval of schedulePeriodicUpdates, heartbeats the 30 s
\* interval of scheduleHeartbeats; ticks counts the 12 h ticks so far
NoSchedule == [claims |-> FALSE, updates |-> FALSE, heartbeats |-> FALSE, ticks |-> 0]

\* the initial states whose inputs and remote are drawn from the given sets
InitFrom(variants, accountFiles, proxyFiles, dataFiles, remotes) ==
    /\ variant \in variants
    /\ lite = [i \in AcctIds |-> LiteIdle]
    /\ runs = 1
    /\ earlier = NoAssignments
    /\ phase = "boot"
    /\ exitCode = -1
    /\ accountTxt \in accountFiles
    /\ proxyTxt \in proxyFiles
    /\ tokens = << >>
    /\ proxies = 0
    /\ dataFile \in dataFiles
    /\ dataAssignments = NoAssignments
    /\ accountIDs = [t \in Tokens |-> None]
    /\ pipe = [i \in AcctIds |-> NoResults]
    /\ sched = NoSchedule
    /\ job = [i \in AcctIds |-> [c \in Callers |-> Idle]]
    /\ conn = [i \in AcctIds |-> << >>]
    /\ closes = [i \in AcctIds |-> 0]
    /\ connects = [i \in AcctIds |-> 0]
    /\ remote \in remotes
    /\ lastPair = NoAssignments
    /\ lookups = [w \in Workers |-> 0]

(***************************************************************************)
(* Spec: every account file, every proxy file of at most one usable line   *)
(* (so that the runs that get past the proxy check have one account), and  *)
(* a remote that may reject any request.                                   *)
(***************************************************************************)
Init ==
    InitFrom({"ws"}, AccountFiles, ProxyFiles, DataFiles,
             [rejects : {TRUE}, down : {0}, fails : {0}])

Next ==
    \/ Load
    \/ Main
    \/ \E i \in AcctIds, c \in Callers : Resolve(i, c)
    \/ \E i \in AcctIds, c \in Callers : Reject(i, c)
    \/ \E i \in AcctIds, c \in Callers : Wake429(i, c)
    \/ \E i \in AcctIds, c \in Callers : WakeRetry(i, c)
    \/ \E i \in AcctIds, k \in 1..MaxConn : WsOpen(i, k)
    \/ \E i \in AcctIds, k \in 1..MaxConn : WsError(i, k)
    \/ \E i \in AcctIds, k \in 1..MaxConn : WsClose(i, k)
    \/ \E i \in AcctIds, k \in 1..MaxConn : ReconnectTimer(i, k)
    \/ \E i \in AcctIds, k \in 1..MaxConn : HeartbeatTick(i, k)

Spec == Init /\ [][Next]_vars

(***************************************************************************)
(* SpecTwo: two accounts with a proxy each, and a remote that answers      *)
(* every request with success, except that it may never confirm the        *)
(* identity of the first account.  No request is answered 429, so no sleep *)
(* of handleAxios429 ever ends.                                            *)
(***************************************************************************)
InitTwo ==
    InitFrom({"ws"}, TwoAccounts, {[readable |-> TRUE, usable |-> 2]},
             {File("absent", NoAssignments)},
             [rejects : {FALSE}, down : {0, 1}, fails : {0}])

NextTwo ==
    \/ Load
    \/ Main
    \/ \E i \in AcctIds, c \in Callers : Resolve(i, c)
    \/ \E i \in AcctIds, c \in Callers : Reject(i, c)
    \/ \E i \in AcctIds, c \in Callers : WakeRetry(i, c)
    \/ \E i \in AcctIds, k \in 1..MaxConn : WsOpen(i, k)
    \/ \E i \in AcctIds, k \in 1..MaxConn : WsError(i, k)
    \/ \E i \in AcctIds, k \in 1..MaxConn : WsClose(i, k)
    \/ \E i \in AcctIds, k \in 1..MaxConn : ReconnectTimer(i, k)
    \/ \E i \in AcctIds, k \in 1..MaxConn : HeartbeatTick(i, k)

SpecTwo == InitTwo /\ [][NextTwo]_vars

(***************************************************************************)
(* SpecFair: the runs of SpecTwo in which the remote never confirms the    *)
(* identity of the first account, under the fairness of the platform and   *)
(* of a remote that answers: every request is answered and every timer     *)
(* fires; a socket that had an error is closed; a connection that is       *)
(* attempted again and again is established at some time.                  *)
(***************************************************************************)
InitFair ==
    InitFrom({"ws"}, TwoAccounts, {[readable |-> TRUE, usable |-> 2]},
             {File("absent", NoAssignments)},
             [rejects : {FALSE}, down : {1}, fails : {0}])

WsCloseAfterError(i, k) ==
    /\ i \in Accts /\ k \in 1..Len(conn[i])
    /\ conn[i][k].ws = "CLOSING"
    /\ WsClose(i, k)

Fairness ==
    /\ WF_vars(Load) /\ WF_vars(Main)
    /\ \A i \in AcctIds, c \in Callers :
          /\ WF_vars(Resolve(i, c))
          /\ WF_vars(Reject(i, c))
          /\ WF_vars(WakeRetry(i, c))
    /\ \A i \in AcctIds :
          /\ SF_vars(\E k \in 1..MaxConn : WsOpen(i, k))
          /\ WF_vars(\E k \in 1..MaxConn : WsCloseAfterError(i, k))
          /\ WF_vars(\E k \in 1..MaxConn : ReconnectTimer(i, k))

SpecFair == InitFair /\ [][NextTwo]_vars /\ Fairness

(***************************************************************************)
(* The process is stopped, or has exited, and is started again: the script *)
(* runs from its first line, so everything it holds in memory starts anew  *)
(* (tokens, proxies, dataAssignments = {}, accountIDs = {}, no operation,  *)
(* no socket, no timer); account.txt, proxy.txt and data.json are as the   *)
(* earlier run left them.                                                  *)
(***************************************************************************)
Restart ==
    /\ phase \in {"running", "exited"}
    /\ runs < MaxRuns
    /\ runs' = runs + 1
    /\ earlier' = [w \in Workers |->
                      IF lastPair[w] # NoPair THEN lastPair[w] ELSE earlier[w]]
    /\ phase' = "boot"
    /\ exitCode' = -1
    /\ tokens' = << >>
    /\ proxies' = 0
    /\ dataAssignments' = NoAssignments
    /\ accountIDs' = [t \in Tokens |-> None]
    /\ pipe' = [i \in AcctIds |-> NoResults]
    /\ sched' = NoSchedule
    /\ job' = [i \in AcctIds |-> [c \in Callers |-> Idle]]
    /\ conn' = [i \in AcctIds |-> << >>]
    /\ closes' = [i \in AcctIds |-> 0]
    /\ connects' = [i \in AcctIds |-> 0]
    /\ lite' = [i \in AcctIds |-> LiteIdle]
    /\ lastPair' = NoAssignments
    /\ lookups' = [w \in Workers |-> 0]
    /\ UNCHANGED << inputVars, dataFile, remote >>

(***************************************************************************)
(* SpecRestart: one account of the persistent-channel program, a remote    *)
(* that answers every request with success, every state of data.json at    *)
(* the first start, and a process that is started again.                   *)
(***************************************************************************)
InitRestart ==
    InitFrom({"ws"}, {<< Line("0xA", "tok1") >>},
             {[readable |-> TRUE, usable |-> 1]}, DataFiles,
             [rejects : {FALSE}, down : {0}, fails : {0}])

NextRestart ==
    \/ Load
    \/ Main
    \/ \E i \in AcctIds, c \in Callers : Resolve(i, c)
    \/ \E i \in AcctIds, k \in 1..MaxConn : WsOpen(i, k)
    \/ \E i \in AcctIds, k \in 1..MaxConn : WsError(i, k)
    \/ \E i \in AcctIds, k \in 1..MaxConn : WsClose(i, k)
    \/ \E i \in AcctIds, k \in 1..MaxConn : ReconnectTimer(i, k)
    \/ \E i \in AcctIds, k \in 1..MaxConn : HeartbeatTick(i, k)
    \/ Restart

SpecRestart == InitRestart /\ [][NextRestart]_vars

(***************************************************************************)
(* SpecBoth: either program, run for two accounts with a proxy each, with  *)
(* the claim schedulers and their 12 h tick.  The remote answers every     *)
(* request, with success except that it fails every claim_details request  *)
(* of the first account (and, in the channel-less program, may fail any    *)
(* request of that account); no request is answered 429, and a channel     *)
(* that is open stays open.                                                *)
(***************************************************************************)
InitBoth ==
    InitFrom({"ws", "lite"}, {<< Line("0xA", "tok1"), Line("0xB", "tok2") >>},
             {[readable |-> TRUE, usable |-> 2]},
             {File("absent", NoAssignments)},
             [rejects : {FALSE}, down : {0}, fails : {1}])

NextBoth ==
    \/ Load
    \/ Main
    \/ \E i \in AcctIds, c \in Callers : Resolve(i, c)
    \/ \E i \in AcctIds, c \in Callers : Reject(i, c)
    \/ \E i \in AcctIds, c \in Callers : WakeRetry(i, c)
    \/ \E i \in AcctIds, k \in 1..MaxConn : WsOpen(i, k)
    \/ \E i \in AcctIds, k \in 1..MaxConn : HeartbeatTick(i, k)
    \/ ClaimTick
    \/ LiteMain
    \/ \E i \in AcctIds : LiteAnswer(i)
    \/ \E i \in AcctIds : LiteTimeout(i)
    \/ LiteBeatTick
    \/ LiteClaimTick
    \/ \E i \in AcctIds, kind \in {"claims", "beats"} : LiteDone(i, kind)

SpecBoth == InitBoth /\ [][NextBoth]_vars

(***************************************************************************)
(* SpecHang: either program, run for one account against a remote, or a    *)
(* proxy, that may leave any request without an answer.  The platform is   *)
(* fair: the script and main run, and every timer that is armed fires (the *)
(* sleeps of the retry loops, the reconnect timer, the request timeout).   *)
(* Nothing is assumed of the remote or of the channel.                     *)
(***************************************************************************)
InitHang ==
    InitFrom({"ws", "lite"}, {<< Line("0xA", "tok1") >>},
             {[readable |-> TRUE, usable |-> 1]},
             {File("absent", NoAssignments)},
             [rejects : {TRUE}, down : {0}, fails : {0}])

NextHang ==
    \/ Next
    \/ LiteMain
    \/ \E i \in AcctIds : LiteAnswer(i)
    \/ \E i \in AcctIds : LiteTimeout(i)
    \/ LiteBeatTick
    \/ LiteClaimTick
    \/ \E i \in AcctIds, kind \in {"claims", "beats"} : LiteDone(i, kind)

FairTimers ==
    /\ WF_vars(Load) /\ WF_vars(Main) /\ WF_vars(LiteMain)
    /\ \A i \in AcctIds :
          /\ \A c \in Callers : WF_vars(Wake429(i, c)) /\ WF_vars(WakeRetry(i, c))
          /\ WF_vars(\E k \in 1..MaxConn : ReconnectTimer(i, k))
          /\ WF_vars(LiteTimeout(i))

SpecHang == InitHang /\ [][NextHang]_vars /\ FairTimers

(***************************************************************************)
(* SpecSameToken: the persistent-channel program run for an account.txt    *)
(* whose two lines carry the same token, with a proxy each and a remote    *)
(* that answers every request with success; a channel that is open stays   *)
(* open.                                                                   *)
(***************************************************************************)
InitSameToken ==
    InitFrom({"ws"}, {<< Line("0xA", "tok1"), Line("0xB", "tok1") >>},
             {[readable |-> TRUE, usable |-> 2]},
             {File("absent", NoAssignments)},
             [rejects : {FALSE}, down : {0}, fails : {0}])

NextSameToken ==
    \/ Load
    \/ Main
    \/ \E i \in AcctIds, c \in Callers : Resolve(i, c)
    \/ \E i \in AcctIds, k \in 1..MaxConn : WsOpen(i, k)
    \/ \E i \in AcctIds, k \in 1..MaxConn : HeartbeatTick(i, k)

SpecSameToken == InitSameToken /\ [][NextSameToken]_vars

(***************************************************************************)
(* SpecRetry: the persistent-channel program for one account and a remote  *)
(* that may reject any request, with 429 up to Max429 times per operation. *)
(* Every request is answered, with success or with an error, and every     *)
(* timer fires.  The operations are those of the scheduler's startup batch *)
(* and of the pipeline; the channel the pipeline opens is left alone.      *)
(***************************************************************************)
InitRetry ==
    InitFrom({"ws"}, {<< Line("0xA", "tok1") >>},
             {[readable |-> TRUE, usable |-> 1]},
             {File("absent", NoAssignments)},
             [rejects : {TRUE}, down : {0}, fails : {0}])

NextRetry ==
    \/ Load
    \/ Main
    \/ \E i \in AcctIds, c \in Callers : Resolve(i, c)
    \/ \E i \in AcctIds, c \in Callers : Reject(i, c)
    \/ \E i \in AcctIds, c \in Callers : Wake429(i, c)
    \/ \E i \in AcctIds, c \in Callers : WakeRetry(i, c)

\* the request of an operation completes
Completes(i, c) == Resolve(i, c) \/ Reject(i, c)

FairRetry ==
    /\ WF_vars(Load) /\ WF_vars(Main)
    /\ \A i \in AcctIds, c \in Callers :
          /\ WF_vars(Completes(i, c))
          /\ WF_vars(Wake429(i, c))
          /\ WF_vars(WakeRetry(i, c))

SpecRetry == InitRetry /\ [][NextRetry]_vars /\ FairRetry

(***************************************************************************)
(* SpecStore: the persistent-channel program for two accounts of two       *)
(* owners, started with any of the data.json files, a proxy each and a     *)
(* remote that answers every request with success; a channel that is open  *)
(* stays open.                                                             *)
(***************************************************************************)
InitStore ==
    InitFrom({"ws"}, {<< Line("0xA", "tok1"), Line("0xB", "tok2") >>},
             {[readable |-> TRUE, usable |-> 2]},
             DataFiles,
             [rejects : {FALSE}, down : {0}, fails : {0}])

SpecStore == InitStore /\ [][NextSameToken]_vars

(***************************************************************************)
(* Properties.                                                             *)
(***************************************************************************)
\* the closures of account i that satisfy P
Count(i, P(_)) == Cardinality({ k \in 1..Len(conn[i]) : P(conn[i][k]) })
IsLive(cl) == cl.ws \in {"CONNECTING", "OPEN"}
IsOpen(cl) == cl.ws = "OPEN"
\* the pending reconnect timers of account i
RECURSIVE SumTimers(_)
SumTimers(cls) ==
    IF cls = << >> THEN 0 ELSE Head(cls).reconnectTimers + SumTimers(Tail(cls))
PendingTimers(i) == SumTimers(conn[i])

\* C1: in every reachable state every account has at most one live channel
\* (Connecting or Open) and at most one pending reconnect timer.
C1_OneChannelOneTimer ==
    \A i \in AcctIds : Count(i, IsLive) <= 1 /\ PendingTimers(i) <= 1

\* C1 witness: both accounts have reconnected; one is open again while the
\* other one's next channel is connecting.
C1_Witness ==
    /\ Len(tokens) = 2
    /\ connects[1] = 2 /\ Count(1, IsOpen) = 1
    /\ closes[2] = 1 /\ PendingTimers(2) = 1

\* C2: every close event is followed by exactly one connectWebSocket call:
\* the calls so far and the pending reconnect timers add up to the close
\* events plus the first call; no two reconnects are pending at once, and a
\* pending reconnect was armed with a delay between 30 and 60 seconds.
C2_ReconnectOncePerClose ==
    \A i \in AcctIds :
        /\ connects[i] >= 1 => connects[i] + PendingTimers(i) = closes[i] + 1
        /\ PendingTimers(i) <= 1
        /\ \A k \in 1..Len(conn[i]) :
              conn[i][k].reconnectTimers > 0 =>
                  conn[i][k].delay >= 30 /\ conn[i][k].delay <= 60

\* C2 witness: a channel was opened and closed, its reconnect is pending.
C2_Witness ==
    \E i \in Accts :
        /\ closes[i] = 1 /\ connects[i] = 1
        /\ \E k \in 1..Len(conn[i]) :
              conn[i][k].reconnectTimers = 1 /\ conn[i][k].ws = "CLOSED"
        /\ lookups[tokens[i].workerID] > 0

InFlight(op) == op.pc \in {"request", "wait429", "retryWait"}
Identified(i) == accountIDs[tokens[i].token] # None

\* C3: a 429 answer never uses up an attempt.  In every step of an
\* operation: a 429 answer puts it to sleep in handleAxios429 with the same
\* attempt and the same request; that sleep ends in the same request being
\* made again; the attempt number changes only at the end of the sleep
\* between two attempts, which only a non-429 failure starts; a success
\* returns within the attempt it arrives in; no 429 makes the operation fail.
C3_429KeepsAttempt ==
    [][\A i \in AcctIds, c \in Callers :
        LET a == job[i][c]
            b == job'[i][c]
        IN  (a.fn = b.fn /\ a.fn # None) =>
              /\ b.seen429 > a.seen429 =>
                    /\ b.pc = "wait429" /\ b.attempt = a.attempt
                    /\ b.call = a.call /\ b.result = None
              /\ (a.pc = "wait429" /\ b # a) =>
                    /\ b.pc = "request" /\ b.attempt = a.attempt
                    /\ b.call = a.call
              /\ b.attempt # a.attempt =>
                    /\ a.pc = "retryWait" /\ b.attempt = a.attempt + 1
              /\ (b.pc = "retryWait" /\ a.pc # "retryWait") =>
                    b.seen429 = a.seen429
              /\ (b.pc = "returned" /\ a.pc # "returned") =>
                    /\ b.attempt = a.attempt
                    /\ b.result = "failed" => b.seen429 = a.seen429
    ]_vars

\* C3 witness: the claim check of the scheduler was answered 429 twice and
\* returned with success in its first attempt.
C3_Witness ==
    \E i \in Accts :
        /\ job[i].startup.pc = "returned" /\ job[i].startup.result = "ok"
        /\ job[i].startup.seen429 = 2 /\ job[i].startup.attempt = 1

\* the state part of C4: the attempts of a bounded operation are at most
\* Retries, its sleep between two attempts is DelayMs and comes before the
\* last attempt only, its failure is a return after the last attempt; no
\* operation ends with an exception and the process does not end.
C4_BoundedRetryInv ==
    /\ \A i \in AcctIds, c \in Callers :
          LET op == job[i][c]
          IN  /\ op.pc # "thrown"
              /\ Bounded(op.fn) =>
                    /\ op.attempt <= Retries
                    /\ op.pc = "retryWait" =>
                          op.timer = DelayMs /\ op.attempt < Retries
                    /\ op.result = "failed" =>
                          op.pc = "returned" /\ op.attempt = Retries /\ op.timer = 0
    /\ phase = "exited" => \A i \in AcctIds, c \in Callers : job[i][c] = Idle

\* C4: a bounded operation makes at most Retries attempts, sleeps DelayMs
\* between two attempts and not after the last, and after the last failed
\* attempt it has returned: it never ends with an exception and the process
\* never ends once main has started the operations.
C4_BoundedRetry ==
    /\ []C4_BoundedRetryInv
    /\ [][\A i \in AcctIds, c \in Callers :
            LET a == job[i][c]
                b == job'[i][c]
            IN  (a.fn = b.fn /\ Bounded(a.fn)) =>
                  /\ b.attempt # a.attempt =>
                        /\ a.pc = "retryWait" /\ a.timer = DelayMs
                        /\ b.attempt = a.attempt + 1
                  /\ (b.result = "failed" /\ a.result = None) =>
                        a.pc = "request" /\ a.attempt = Retries
       ]_vars

\* C4 witness: the reward-summary fetch of the pipeline and the claim check
\* of the scheduler both failed three times, and the process runs.
C4_Witness ==
    /\ phase = "running"
    /\ \E i \in Accts :
          /\ pipe[i].getAccountDetails = "failed"
          /\ job[i].startup.result = "failed" /\ job[i].startup.attempt = Retries

\* the requests other than the identity request, and the channel
IssuedByPipeline(i) ==
    \/ job[i].pipeline.fn \in {"getAccountDetails", "checkAndClaimReward"}
    \/ job[i].pipeline = PipelineDone
    \/ connects[i] > 0
IssuedByScheduler(i) ==
    \/ job[i].startup.fn \in {"getAccountDetails", "checkAndClaimReward"}
    \/ sched.updates

\* C5 as stated (refuted): nothing but the identity request is issued for an account,
\* by its pipeline or by the scheduler, before its identity is in accountIDs.
C5_AllGated ==
    \A i \in Accts :
        (IssuedByPipeline(i) \/ IssuedByScheduler(i)) => Identified(i)

\* C5: getAccountID never gives up, and the pipeline of an account
\* issues its reward-summary fetch, its claim check and its channel open
\* only after the identity of the account is in accountIDs; so do the
\* periodic updates.  The claim check of the scheduler is not gated.
C5_PipelineGated ==
    \A i \in Accts :
        /\ (IssuedByPipeline(i) \/ sched.updates) => Identified(i)
        /\ pipe[i].getAccountID # "failed"
        /\ job[i].pipeline.fn = "getAccountID" => InFlight(job[i].pipeline)

\* C5 witness: identity resolution failed and is being retried, then
\* succeeds and the pipeline fetches the reward summary.
C5_Witness ==
    \E i \in Accts :
        /\ job[i].pipeline.fn = "getAccountDetails"
        /\ Identified(i)
        /\ job[i].startup.pc = "returned"

\* the account whose identity the remote never confirms
Failing(i) == remote.down = i

\* C6: an account whose identity is never confirmed stays in getAccountID,
\* which requests and sleeps again and again, and every other account
\* reaches the Open state.
C6_Independent ==
    \A i \in 1..2 :
        /\ ~Failing(i) => <>(i \in Accts /\ Count(i, IsOpen) = 1)
        /\ Failing(i) =>
              /\ [](i \in Accts =>
                       /\ ~Identified(i)
                       /\ job[i].pipeline.fn \in {None, "getAccountID"}
                       /\ connects[i] = 0)
              /\ []<>(job[i].pipeline.pc = "request")
              /\ []<>(job[i].pipeline.pc = "retryWait")

\* C6 witness: the second account is open while the first one sleeps after
\* a further failed identity request.
C6_Witness ==
    /\ Len(tokens) = 2 /\ Failing(1)
    /\ job[1].pipeline.fn = "getAccountID" /\ job[1].pipeline.pc = "retryWait"
    /\ job[1].pipeline.attempt = MaxIdAttempt
    /\ Count(2, IsOpen) = 1

\* C7: when the reward-summary fetch has failed on all attempts the claim
\* step has been started, and when the claim step has failed on all
\* attempts, or the pipeline has returned, the channel has been opened.
C7_StepsIndependent ==
    \A i \in Accts :
        /\ pipe[i].getAccountDetails = "failed" =>
              \/ job[i].pipeline.fn = "checkAndClaimReward"
              \/ job[i].pipeline = PipelineDone
        /\ pipe[i].checkAndClaimReward = "failed" => job[i].pipeline = PipelineDone
        /\ job[i].pipeline = PipelineDone => connects[i] >= 1

\* C7 witness: both steps failed on all attempts and the channel is open.
C7_Witness ==
    \E i \in Accts :
        /\ pipe[i].getAccountDetails = "failed"
        /\ pipe[i].checkAndClaimReward = "failed"
        /\ Count(i, IsOpen) = 1

HasFailed(cl) == cl.ws \in {"CLOSING", "CLOSED"}
IsConnecting(cl) == cl.ws = "CONNECTING"

\* C8: a channel that failed (an error, or a close) is followed by a new
\* connecting channel of that account; a closed channel has its one
\* reconnect armed with the reconnect delay; and the process never ends
\* once a channel was opened.
C8_Recovered ==
    /\ [](\A i \in AcctIds :
            /\ connects[i] > 0 => phase = "running"
            /\ \A k \in 1..Len(conn[i]) :
                  conn[i][k].ws = "CLOSED" =>
                      /\ conn[i][k].reconnectTimers = 1
                      /\ conn[i][k].delay = ReconnectDelay)
    /\ \A i \in AcctIds :
          (Count(i, HasFailed) > 0) ~> (Count(i, IsConnecting) > 0)

\* C8 witness: a connection attempt that never opened has failed, its
\* channel is closed and the new channel is connecting.
C8_Witness ==
    \E i \in Accts :
        /\ closes[i] = 1 /\ connects[i] = 2
        /\ Count(i, IsConnecting) = 1
        /\ lookups[tokens[i].workerID] = 0

\* the proxy file holds fewer usable proxies than account.txt valid accounts
FewerProxies ==
    /\ proxyTxt.readable
    /\ Len(ParseAccounts(accountTxt)) > 0
    /\ proxyTxt.usable < Len(ParseAccounts(accountTxt))

\* C9: with fewer usable proxies than valid accounts the process has
\* exited with status 1 once the files are read, and nothing was requested
\* and no channel opened for any account.
C9_NoProxiesNoNetwork ==
    (FewerProxies /\ phase # "boot") =>
        /\ phase = "exited" /\ exitCode = 1
        /\ \A i \in AcctIds :
              /\ \A c \in Callers : job[i][c] = Idle
              /\ connects[i] = 0 /\ conn[i] = << >>

\* C9 witness: two accounts, one proxy, and the process has exited.
C9_Witness ==
    /\ FewerProxies /\ phase = "exited"
    /\ Len(tokens) = 2 /\ proxies = 1

\* C10: once a lookup for a worker has returned a pair, every later lookup
\* for that worker, by whichever account, returns that pair, and an
\* assignment that exists is never replaced.
C10_SamePair ==
    [][\A w \in Workers :
        /\ lastPair[w] # NoPair => lastPair'[w] = lastPair[w]
        /\ dataAssignments[w] # NoPair => dataAssignments'[w] = dataAssignments[w]
        /\ lastPair'[w] # NoPair => lastPair'[w] = dataAssignments'[w]
    ]_vars

\* C10 witness: two accounts of one owner have both opened their channel
\* and the assignment of their worker was looked up twice.
C10_Witness ==
    /\ Len(tokens) = 2
    /\ tokens[1].workerID = tokens[2].workerID
    /\ lookups[tokens[1].workerID] >= 2
    /\ lastPair[tokens[1].workerID] # NoPair
    /\ Count(1, IsOpen) = 1 /\ Count(2, IsOpen) = 1

\* C11 (refuted): a lookup for a worker in a later process run returns the
\* pair that the lookups of the earlier runs returned for that worker.
C11_SameAfterRestart ==
    \A w \in Workers :
        (earlier[w] # NoPair /\ lastPair[w] # NoPair) => lastPair[w] = earlier[w]

\* a request of account i is in flight
Requesting(i) ==
    \/ \E c \in Callers : job[i][c].pc = "request"
    \/ lite[i].fn # None \/ lite[i].claims > 0 \/ lite[i].beats > 0

\* C12 (refuted): every request in flight for the account at list position i
\* is made through the proxy at list position i, and so is every channel
\* opened for it, in the persistent-channel and in the channel-less program.
C12_ViaOwnProxy ==
    \A i \in Accts :
        /\ Requesting(i) => RequestAgent(i) = i
        /\ conn[i] # << >> => wsAgent(i) = i

\* the claim check the scheduler started for account i when it was started
StartupCheck(i) == job[i].startup.fn = "checkAndClaimReward"
\* the first batch of the claim scheduler has been started
FirstBatch(i) == IF variant = "ws" THEN StartupCheck(i) ELSE sched.claims

\* C13 as stated (refuted): once the program runs, the claim scheduler has
\* been started and has started a claim check for every loaded account.
C13_AtStartup ==
    phase = "running" => \A i \in Accts : FirstBatch(i)

\* C13: in the persistent-channel program the claim check of the scheduler
\* is started for every account as soon as the program runs; in the
\* channel-less program the scheduler is started when the pipelines of all
\* accounts have returned, and then claims for every account.  In both, the
\* interval stays armed, every 12 h tick starts a claim check for every
\* account whatever became of the earlier ones, a step of one account's
\* claim check changes no claim check of another account, no claim check
\* ends with an exception and the process keeps running.
C13_Batches ==
    /\ [](phase = "running" =>
            /\ variant = "ws" => sched.claims /\ \A i \in Accts : StartupCheck(i)
            /\ variant = "lite" => (sched.claims <=> LiteAllReturned(lite))
            /\ \A i \in Accts, c \in Callers : job[i][c].pc # "thrown")
    /\ [][/\ phase = "running" => phase' = "running"
          /\ sched.claims => sched'.claims
          /\ (~sched.claims /\ sched'.claims /\ variant = "lite") =>
                \A i \in Accts : lite'[i].claims = lite[i].claims + 1
          /\ sched'.ticks # sched.ticks =>
                /\ sched'.ticks = sched.ticks + 1
                /\ \A i \in Accts :
                      IF variant = "ws"
                      THEN job'[i].tick = Begin("checkAndClaimReward")
                      ELSE lite'[i].claims = lite[i].claims + 1
          /\ \A i, j \in Accts, c \in {"startup", "tick"} :
                (/\ i # j /\ job[i][c].fn = "checkAndClaimReward"
                 /\ job'[i][c] # job[i][c] /\ sched'.ticks = sched.ticks) =>
                    /\ job'[j].startup = job[j].startup
                    /\ job'[j].tick = job[j].tick
          /\ \A i, j \in Accts :
                (i # j /\ lite'[i].claims < lite[i].claims) =>
                    lite'[j].claims = lite[j].claims
         ]_vars

\* C13 witness: the claim check of the first account failed on all attempts
\* when the scheduler was started; the tick has started a claim check for
\* both accounts, and the one of the second account has returned with
\* success while the first account is in its second attempt.
C13_Witness ==
    /\ variant = "ws" /\ Len(tokens) = 2
    /\ job[1].startup.result = "failed" /\ job[2].startup.result = "ok"
    /\ sched.ticks = 1
    /\ job[1].tick.attempt = 2
    /\ job[2].tick.result = "ok"

\* C14 (refuted): no request stays in flight for ever: every request of an
\* operation of the persistent-channel program ends (the operation returns,
\* sleeps or starts its next attempt), and every function of the pipeline
\* of the channel-less program returns.
C14_EveryCallEnds ==
    \A i \in AcctIds :
        /\ \A c \in Callers :
              (job[i][c].pc = "request") ~> (job[i][c].pc # "request")
        /\ \A n \in 0..(Len(LiteSteps) - 1) :
              (lite[i].fn # None /\ Len(lite[i].past) = n) ~> (Len(lite[i].past) > n)

\* the writes of key t so far: getAccountID assigns accountIDs[token] once,
\* right before it returns, so there is one write for every account with
\* that token whose getAccountID has returned
Writes(t) ==
    Cardinality({ i \in Accts : tokens[i].token = t /\ pipe[i].getAccountID = "ok" })

\* C15 (refuted): every key of accountIDs is written at most once during a
\* process run.
C15_WriteOnce == \A t \in Tokens : Writes(t) <= 1

HasInterval(cl) == cl.heartbeatInterval > 0
WasOpened(cl) == cl.sent # << >> /\ cl.sent[1] = "REGISTER"

\* C16: the heartbeat interval runs only between the open event and the
\* close event of its own channel instance: an instance that is connecting or
\* closed has no interval, so after its close event its timer sends nothing;
\* the instance with the interval is the one whose open event started it and
\* the newest of its account, so no newer instance exists for the timer to
\* send on; HEARTBEAT is found only on an instance that was opened; and at
\* most one interval runs per account.
C16_TimerWithinChannel ==
    \A i \in AcctIds :
        /\ Count(i, HasInterval) <= 1
        /\ \A k \in 1..Len(conn[i]) :
              /\ conn[i][k].ws \in {"CONNECTING", "CLOSED"} => ~HasInterval(conn[i][k])
              /\ HasInterval(conn[i][k]) => WasOpened(conn[i][k]) /\ k = Len(conn[i])
              /\ (\E n \in 1..Len(conn[i][k].sent) : conn[i][k].sent[n] = "HEARTBEAT")
                    => WasOpened(conn[i][k])

\* C16 witness: a channel was closed and the next one is open; its interval
\* has sent HEARTBEAT while the other account's closed channel waits for its
\* reconnect with no interval.
C16_Witness ==
    /\ Len(tokens) = 2
    /\ closes[1] = 1 /\ connects[1] = 2 /\ Len(conn[1]) = 1
    /\ HasInterval(conn[1][1]) /\ conn[1][1].sent = << "REGISTER", "HEARTBEAT" >>
    /\ closes[2] = 1 /\ PendingTimers(2) = 1
    /\ \E k \in 1..Len(conn[2]) :
           conn[2][k].ws = "CLOSED" /\ conn[2][k].sent = << "REGISTER", "HEARTBEAT" >>

Protocol == << "REGISTER", "HEARTBEAT" >>
IsPrefix(a, b) == Len(a) <= Len(b) /\ \A n \in 1..Len(a) : a[n] = b[n]
LastSent(cl) == IF cl.sent = << >> THEN None ELSE cl.sent[Len(cl.sent)]

\* C17: on every channel instance the messages sent are REGISTER once and
\* then HEARTBEATs only; an instance that is open has sent its REGISTER and
\* runs the 30 second interval, an instance that is still connecting has sent
\* nothing; and every tick of the interval of an open instance sends
\* HEARTBEAT.
C17_RegisterThenHeartbeats ==
    /\ [](\A i \in AcctIds : \A k \in 1..Len(conn[i]) :
             /\ IsPrefix(conn[i][k].sent, Protocol)
             /\ conn[i][k].ws = "CONNECTING" => conn[i][k].sent = << >>
             /\ conn[i][k].ws = "OPEN" =>
                   /\ conn[i][k].sent # << >>
                   /\ conn[i][k].heartbeatInterval = 30)
    /\ [][\A i \in AcctIds : \A k \in 1..Len(conn[i]) :
             /\ (HeartbeatTick(i, k) /\ conn[i][k].ws = "OPEN") =>
                   LastSent(conn'[i][k]) = "HEARTBEAT"
             /\ (WsOpen(i, k) /\ k <= Len(conn'[i])) =>
                   conn'[i][k].sent = << "REGISTER" >>]_vars

\* C17 witness: a second channel instance of account 1 is open and has sent
\* only its REGISTER, while the instance of account 2 has sent HEARTBEAT on
\* two ticks or more.
C17_Witness ==
    /\ Len(tokens) = 2
    /\ connects[1] = 2 /\ Len(conn[1]) = 1
    /\ conn[1][1].ws = "OPEN" /\ conn[1][1].sent = << "REGISTER" >>
    /\ connects[2] = 1 /\ Len(conn[2]) = 1
    /\ conn[2][1].ws = "OPEN" /\ LastSent(conn[2][1]) = "HEARTBEAT"
    /\ lookups[tokens[2].workerID] = MaxLookups

\* the reconnect-pending mark of account i: reconnectPending of one of its
\* closures
Pending(i) == \E k \in 1..Len(conn[i]) : conn[i][k].reconnectPending

\* C18: reconnectPending of a closure is set exactly while its reconnect
\* timer is armed; the mark of an account is set in the step of a close event
\* that arms the timer, it is cleared only in the step in which the timer
\* fires and connectWebSocket makes the next instance, which is connecting,
\* and while it stays set no step arms another timer.
C18_PendingMark ==
    /\ [](\A i \in AcctIds : \A k \in 1..Len(conn[i]) :
             /\ conn[i][k].reconnectPending <=> conn[i][k].reconnectTimers = 1
             /\ conn[i][k].reconnectTimers <= 1)
    /\ [][\A i \in AcctIds :
             /\ (~Pending(i) /\ Pending(i)') =>
                   /\ closes'[i] = closes[i] + 1
                   /\ PendingTimers(i)' = PendingTimers(i) + 1
             /\ (Pending(i) /\ ~Pending(i)') =>
                   /\ connects'[i] = connects[i] + 1
                   /\ conn'[i][Len(conn'[i])].ws = "CONNECTING"
                   /\ PendingTimers(i)' = 0
             /\ (Pending(i) /\ Pending(i)') =>
                   /\ PendingTimers(i)' = PendingTimers(i)
                   /\ connects'[i] = connects[i]]_vars

\* C18 witness: the mark of account 1 was set by the close event that
\* followed an error of its connecting channel and is still set, and the mark
\* of account 2 has been cleared by the start of its second attempt.
C18_Witness ==
    /\ Len(tokens) = 2
    /\ Pending(1) /\ closes[1] = 1 /\ connects[1] = 1
    /\ conn[1][1].sent = << >> /\ conn[1][1].ws = "CLOSED"
    /\ ~Pending(2) /\ closes[2] = 1 /\ connects[2] = 2
    /\ conn[2][Len(conn[2])].ws = "CONNECTING"

\* the function of account i's pipeline has returned, with success or after
\* its last attempt
Returned(i, fn) == pipe[i][fn] \in {"ok", "failed"}
\* the function the pipeline of account i is in
PipelineAt(i) == job[i].pipeline.fn

\* C19: in the pipeline of one account getAccountDetails is running or has
\* returned only if getAccountID has returned, checkAndClaimReward only if
\* getAccountDetails has returned, and connectWebSocket has been called only
\* if checkAndClaimReward has returned; in the channel-less program the
\* functions that have returned are a prefix of the list of runPipeline and
\* the one awaited is the next of the list.
C19_Sequential ==
    \A i \in Accts :
        /\ (PipelineAt(i) = "getAccountDetails" \/ pipe[i].getAccountDetails # None)
              => pipe[i].getAccountID = "ok"
        /\ (PipelineAt(i) = "checkAndClaimReward" \/ pipe[i].checkAndClaimReward # None)
              => Returned(i, "getAccountDetails")
        /\ (connects[i] > 0 \/ conn[i] # << >> \/ job[i].pipeline = PipelineDone)
              => Returned(i, "checkAndClaimReward")
        /\ PipelineAt(i) # None => pipe[i][PipelineAt(i)] = None
        /\ IsPrefix(lite[i].past, LiteSteps)
        /\ (variant = "lite" /\ phase = "running") => lite[i].fn = LiteNext(lite[i].past)

\* C19 witness: the second account of the file has gone through its
\* pipeline and its channel is open, while the first account, whose claim
\* check fails, is in its second attempt of that step.
C19_Witness ==
    /\ variant = "ws" /\ Len(tokens) = 2
    /\ job[2].pipeline = PipelineDone /\ Count(2, IsOpen) = 1
    /\ PipelineAt(1) = "checkAndClaimReward" /\ job[1].pipeline.attempt = 2
    /\ Returned(1, "getAccountDetails") /\ conn[1] = << >>

\* a claim_reward request of account i is in flight in the channel-less
\* program: the pipeline awaits claimReward, or a claimReward of
\* scheduleClaims has not returned
LiteClaiming(i) == lite[i].fn = "claimReward" \/ lite[i].claims > 0

\* C20 (refuted): a claim_reward request is in flight only if the latest
\* claim_details response of the account in this run said claimed = false:
\* in the persistent-channel program it is a request of checkAndClaimReward,
\* which asks claim_details first, in the channel-less program the response
\* that getClaimDetails got said so.
C20_ClaimOnlyIfEligible ==
    \A i \in Accts :
        /\ \A c \in Callers :
              job[i][c].call = "claim_reward" => job[i][c].fn = "checkAndClaimReward"
        /\ LiteClaiming(i) => lite[i].claimed = "no"

\* the heartbeat requests of the 30 s interval that account i has in flight
Beats(i) == lite[i].beats

\* C21: in the channel-less program a step that issues a scheduled heartbeat
\* request for one account issues one for every loaded account, whether or
\* not an earlier heartbeat of an account has failed; once scheduleHeartbeats
\* has run the interval stays armed and the process keeps running, and the
\* next tick can come as soon as no account has MaxBeats requests in flight.
C21_BeatsForAll ==
    /\ []((variant = "lite" /\ sched.heartbeats) =>
             /\ phase = "running"
             /\ (\A i \in Accts : Beats(i) < MaxBeats) => ENABLED LiteBeatTick)
    /\ [][/\ sched.heartbeats => sched'.heartbeats
          /\ (\E i \in Accts : Beats(i)' > Beats(i)) =>
                \A j \in Accts : Beats(j)' = Beats(j) + 1]_vars

\* C21 witness: a scheduled heartbeat of account 1 has failed and a later
\* tick has issued requests again, for account 1 and for account 2, none of
\* whose heartbeats failed.
C21_Witness ==
    /\ variant = "lite" /\ Len(tokens) = 2
    /\ lite[1].hbFailed /\ Beats(1) = MaxBeats
    /\ ~lite[2].hbFailed /\ Beats(2) = MaxBeats

\* the callers whose checkAndClaimReward for account i has not returned
Claiming(i) ==
    { c \in Callers : job[i][c].fn = "checkAndClaimReward" /\ InFlight(job[i][c]) }

\* C22 (refuted): at any instant at most one checkAndClaimReward is in
\* progress for an account, counting the one of the scheduler's startup
\* batch, the one of the account's pipeline and the one of a 12 h tick, so no
\* two of them have a claim_reward request out at once.
C22_OneClaimAtATime ==
    \A i \in Accts :
        /\ Cardinality(Claiming(i)) <= 1
        /\ Cardinality({ c \in Claiming(i) : job[i][c].call = "claim_reward" }) <= 1

\* runPipeline of account i has returned
PipelineReturned(i) == i \in Accts /\ job[i].pipeline = PipelineDone

\* C23 (refuted): once the pipeline of an account has returned,
\* schedulePeriodicUpdates is eventually called and its 5 min interval is
\* armed, whatever the pipelines of the other accounts do.
C23_RefreshStarts == \A i \in AcctIds : PipelineReturned(i) ~> sched.updates

BoundedFns == {"getAccountDetails", "checkAndClaimReward"}
\* caller c's call of fn for account i has not returned
Running(i, c, fn) == job[i][c].fn = fn /\ InFlight(job[i][c])

\* C24: when every request completes, every timer fires and an operation is
\* answered 429 at most Max429 times, every getAccountDetails and every
\* checkAndClaimReward that was started returns; the attempts of such an
\* operation never exceed 3, and with no 429 answer an operation in its
\* third attempt that is rejected returns in that step.
C24_Terminates ==
    /\ \A i \in AcctIds, c \in Callers, fn \in BoundedFns :
          Running(i, c, fn) ~> ~Running(i, c, fn)
    /\ [](\A i \in AcctIds, c \in Callers :
             job[i][c].fn \in BoundedFns => job[i][c].attempt <= 3)
    /\ [][\A i \in AcctIds, c \in Callers, fn \in BoundedFns :
             (/\ Running(i, c, fn) /\ job[i][c].attempt = 3
              /\ job[i][c].pc = "request"
              /\ job'[i][c] # job[i][c]
              /\ job'[i][c].seen429 = job[i][c].seen429)
                => (~Running(i, c, fn)' \/ job'[i][c].call # job[i][c].call)]_vars

\* C24 witness: the claim check of the scheduler has returned after three
\* failed attempts and Max429 answers 429, the reward-summary fetch of the
\* pipeline after three failed attempts, and the claim check of the pipeline
\* with success.
C24_Witness ==
    \E i \in Accts :
        /\ job[i].startup.pc = "returned" /\ job[i].startup.result = "failed"
        /\ job[i].startup.seen429 = Max429 /\ job[i].startup.attempt = 3
        /\ pipe[i].getAccountDetails = "failed"
        /\ pipe[i].checkAndClaimReward = "ok"

\* C25: every channel instance of an account, the first one and those made
\* by reconnects, was made with the account as it was loaded and with the
\* account's own index: its REGISTER and HEARTBEAT carry the worker identity
\* and the owner address of the account, its REGISTER the session id of the
\* account, its socket is opened with the account's token through the agent
\* of the account's index; and the loaded accounts and proxies never change
\* while the process runs.
C25_SameAccount ==
    /\ [](\A i \in Accts : \A k \in 1..Len(conn[i]) :
             LET cl == conn[i][k]
             IN  /\ regMsg(cl).workerID = tokens[i].workerID
                 /\ regMsg(cl).identity = tokens[i].workerID
                 /\ regMsg(cl).ownerAddress = tokens[i].ownerAddress
                 /\ regMsg(cl).id = tokens[i].sessionID
                 /\ hbMsg(cl).workerID = tokens[i].workerID
                 /\ hbMsg(cl).Identity = tokens[i].workerID
                 /\ hbMsg(cl).ownerAddress = tokens[i].ownerAddress
                 /\ wsUrl(cl) = tokens[i].token
                 /\ cl.index = i /\ wsAgent(cl.index) = wsAgent(i))
    /\ [][phase = "running" => tokens' = tokens /\ proxies' = proxies]_vars

\* C25 witness: the second channel instance of account 2, made by a
\* reconnect, is open and has sent REGISTER with the session id of the
\* account and then HEARTBEAT, while account 1 is on its first instance.
C25_Witness ==
    /\ Len(tokens) = 2
    /\ connects[2] = 2 /\ closes[2] = 1 /\ Len(conn[2]) = 1
    /\ conn[2][1].ws = "OPEN" /\ LastSent(conn[2][1]) = "HEARTBEAT"
    /\ regMsg(conn[2][1]).id = << "uuid", 2 >>
    /\ regMsg(conn[2][1]).ownerAddress = "0xB"
    /\ connects[1] = 1 /\ closes[1] = 0 /\ Count(1, IsOpen) = 1

\* the workers whose assignment differs between two mappings
Changed(before, after) == { w \in Workers : after[w] # before[w] }

\* C26: while the process runs, a step changes the assignment of at most
\* one worker, and only from none to a pair; and a step that leaves data.json
\* as a readable file of a successful write leaves in it the whole mapping
\* that is in memory after the step, the assignments loaded at startup and
\* those made since.
C26_OthersKept ==
    [][/\ phase = "running" =>
            /\ Cardinality(Changed(dataAssignments, dataAssignments')) <= 1
            /\ \A w \in Changed(dataAssignments, dataAssignments') :
                  dataAssignments[w] = NoPair /\ dataAssignments'[w] \in Pairs
       /\ (dataFile' # dataFile /\ dataFile'.state = "ok") =>
            /\ dataFile'.content = dataAssignments'
            /\ Changed(dataAssignments, dataAssignments') # {}
            /\ \A w \in Workers :
                  dataAssignments[w] # NoPair => dataFile'.content[w] = dataAssignments[w]
    ]_vars

\* C26 witness: the assignment of the first worker was loaded from
\* data.json, the one of the second worker was made in this run, and the
\* file written then holds both.
C26_Witness ==
    /\ phase = "running" /\ Len(tokens) = 2
    /\ dataAssignments[tokens[1].workerID] = StoredBefore[tokens[1].workerID]
    /\ lastPair[tokens[1].workerID] = StoredBefore[tokens[1].workerID]
    /\ lastPair[tokens[2].workerID] \in Pairs
    /\ dataFile.state = "ok" /\ dataFile.content = dataAssignments
    /\ dataFile.content # StoredBefore
====
